---- MODULE Spec2Model ----
(***************************************************************************)
(* KAiSurf secured backend: the reward ledger of kaisurf_secured_app.py    *)
(* (GET /posts, POST /earn/kones, POST /webhook/sync) behind its two        *)
(* decorators, and the ledger history read of kaisurf_test.py, over        *)
(* the tables of models.py.                                                *)
(*                                                                         *)
(* A request is served by a worker with its own SQLAlchemy session.  What  *)
(* a session reads and what it commits are separate steps of the store:    *)
(* the balance row is read by a SELECT, changed in Python, and written     *)
(* back by the UPDATE/INSERT that db.session.commit() flushes in one       *)
(* transaction.  Strings are sequences of characters.                      *)
(***************************************************************************)
EXTENDS Integers, Sequences, FiniteSets, TLC

VARIABLES
    config,         \* app.config: SUPABASE_JWT_SECRET, TRUSTED_SERVICE_API_KEY
    user,           \* table user: the set of auth_uid primary keys
    kones_balance,  \* table kones_balance: row id -> row (ids are 1..Len)
    kones_ledger,   \* table kones_ledger: row id -> row
    chronolog,      \* table chronolog: row id -> row
    clock,          \* datetime.now(timezone.utc), as a logical clock
    session,        \* worker -> the request it is serving and its db.session
    last,           \* the request answered last, with its response
    \* kaisurf_test.py, the session-header application and its own database
    User,           \* table user: row id -> roaming_id (ids are 1..Len)
    LoginRecord,    \* table login_record: row id -> row
    KonesBalance,   \* table kones_balance: the rows, keyed by user_id
    ChronoLog,      \* table chrono_log: row id -> row
    today,          \* datetime.date.today(), as a day number
    utcnow,         \* datetime.datetime.utcnow(), as a logical clock
    registration,   \* the /register request between its two commits
    reply,          \* the response sent by the latest step, with its request
    \* Koralai_Surf_v.0.2.py, the add-on host, and KAIsurfAddOn_v1ai.py
    addon_dir,      \* os.listdir(addons_folder): the add-on directories, in order
    loading,        \* load_addons: where its loop stands
    addons,         \* self.addons: manifest name -> the directory of the instance
    calls,          \* the calls the host made into add-on code, in order
    addon_toolbar,  \* the buttons setup_ui added to main_window.addon_toolbar
    instance,       \* directory -> the AgenticAI_Addon built by initialize
    addon_panel_layout, \* the widgets added to main_window.addon_panel_layout
    addon_panel,    \* whether main_window.addon_panel is visible
    effects,        \* what the latest toggle_panel call did, in order
    \* koralai_alpha.py and Koralai_Surf_v.0.2.py, the tab widget
    tabs,           \* self.tabs: position -> [view, text]
    views,          \* QWebEngineView -> the index its loadFinished lambda holds
    is_open,        \* whether the main window is open
    event           \* the latest tab event

api_vars == <<config, user, kones_balance, kones_ledger, chronolog, clock, session, last>>
legacy_vars == <<User, LoginRecord, KonesBalance, ChronoLog, today, utcnow,
                 registration, reply>>
addon_vars == <<addon_dir, loading, addons, calls, addon_toolbar, instance,
                addon_panel_layout, addon_panel, effects>>
tab_vars == <<tabs, views, is_open, event>>

\* What the routes of kaisurf_secured_app.py never touch.
other_programs == <<legacy_vars, addon_vars, tab_vars>>

vars == <<api_vars, other_programs>>

(***************************************************************************)
(* Bounds and input samples                                                *)
(***************************************************************************)
\* The number of timestamps the clock hands out: every request that reaches
\* its datetime.now() call takes one.
MaxClock == 3

\* The same, while one worker serves the requests one at a time.
MaxSerialClock == 2

Workers == {"w1", "w2"}

\* The identities with a User row, and one a token may name that has none.
Identities == {"u1", "u2"}
UnknownIdentity == "u9"

Hdr(v) == [present |-> TRUE, v |-> v]
NoHdr == [present |-> FALSE]

\* config.py: TRUSTED_SERVICE_API_KEY and SUPABASE_JWT_SECRET (the secret may
\* be set empty in the environment).
TrustedKey == <<"k", "1">>
JwtSecret == <<"s">>
OtherSecret == <<"z">>

\* Values TRUSTED_SERVICE_API_KEY may be configured with.
ConfiguredKeys == {TrustedKey, <<"x", "y">>}

\* X-Api-Key as sent: absent, right, one character off, unrelated.
ApiKeys == {NoHdr, Hdr(TrustedKey), Hdr(<<"k", "2">>), Hdr(<<"x", "y">>)}

\* The Authorization header as sent: absent, not a Bearer header, or a Bearer
\* header whose token is garbage or a JWT signed with some key.
Jwt(key, exp, sub) == [form |-> "jwt", key |-> key, exp |-> exp, sub |-> sub]
Bearer(jwt) == [hdr |-> "bearer", jwt |-> jwt]
ValidToken(uid) == Bearer(Jwt(JwtSecret, "future", uid))

Tokens ==
    {[hdr |-> "absent"], [hdr |-> "basic"], Bearer([form |-> "garbage"]),
     Bearer(Jwt(OtherSecret, "future", "u1")), Bearer(Jwt(OtherSecret, "past", "u1")),
     Bearer(Jwt(JwtSecret, "past", "u1")), Bearer(Jwt(JwtSecret, "future", "none")),
     Bearer(Jwt(JwtSecret, "future", UnknownIdentity))}
    \cup {ValidToken(uid) : uid \in Identities}

\* The same with every combination of the claims of a JWT: signed with the
\* secret or not, expired or not, its sub a stored identity, an unknown one,
\* or missing.
AllTokens ==
    {[hdr |-> "absent"], [hdr |-> "basic"], Bearer([form |-> "garbage"])}
    \cup {Bearer(Jwt(key, exp, sub)) : key \in {JwtSecret, OtherSecret},
                                       exp \in {"future", "past"},
                                       sub \in {"u1", "none", UnknownIdentity}}
    \cup {ValidToken(uid) : uid \in Identities}

\* X-Api-Key as sent, with keys one character off either configured key, a
\* prefix of one, and an empty header.
AllApiKeys == ApiKeys \cup {Hdr(<<"x", "z">>), Hdr(<<"k">>), Hdr(<<>>)}

\* JSON values.
JInt(n) == [t |-> "int", n |-> n]
JFloat(h) == [t |-> "float", halves |-> h]    \* the number h/2
JBool(b) == [t |-> "bool", b |-> b]
JStr(s) == [t |-> "str", s |-> s]
JNull == [t |-> "null"]
JList(items) == [t |-> "list", items |-> items]
JNumberBody == [t |-> "number"]               \* a non-zero number as the body
JObject(fields) == [t |-> "object", fields |-> fields]

\* amount: integers, strings ("2", "a"), 1.5 and -0.5, true, null, [], {}.
AmountValues ==
    {JInt(n) : n \in -1..2} \cup
    {JStr(<<"2">>), JStr(<<"a">>), JFloat(3), JFloat(-1), JBool(TRUE), JNull, JList({}),
     JObject(<<>>)}

\* description: "", "b", null.
DescriptionValues == {JStr(<<>>), JStr(<<"b">>), JNull}

EarnFieldNames == {"amount", "description"}

EarnObject(keys, a, d) ==
    JObject([k \in keys |-> IF k = "amount" THEN a ELSE d])

\* Bodies of POST /earn/kones: not an object (null, a number, a list of
\* strings), an object lacking a field, a full object.
EarnBodies ==
    {JNull, JNumberBody, JList({}), JList(EarnFieldNames)} \cup
    {EarnObject(keys, JInt(1), JStr(<<"b">>)) : keys \in SUBSET EarnFieldNames} \cup
    {EarnObject(EarnFieldNames, a, JStr(<<"b">>)) : a \in AmountValues} \cup
    {EarnObject(EarnFieldNames, JInt(n), d) : n \in 0..2, d \in DescriptionValues}

\* event_type: "a ", "A_", "", null, a number.  payload: null, {}, {"k": 1}.
EventTypeValues == {JStr(<<"a", " ">>), JStr(<<"A", "_">>), JStr(<<>>), JNull, JInt(5)}
PayloadValues == {JNull, JObject(<<>>), JObject([k |-> JInt(1)])}

WebhookFieldNames == {"event_type", "payload"}

WebhookObject(keys, e, pl) ==
    JObject([k \in keys |-> IF k = "event_type" THEN e ELSE pl])

\* Bodies of POST /webhook/sync.
WebhookBodies ==
    {JNull, JList({})} \cup
    {WebhookObject(keys, JStr(<<"a", " ">>), JObject([k |-> JInt(1)])) :
        keys \in SUBSET WebhookFieldNames} \cup
    {WebhookObject(WebhookFieldNames, e, pl) : e \in EventTypeValues, pl \in PayloadValues}

\* The requests sent while two workers serve concurrently.
ConcurrentApiKeys == {Hdr(TrustedKey), Hdr(<<"k", "2">>)}
ConcurrentTokens == {ValidToken(uid) : uid \in Identities}
ConcurrentEarnBodies ==
    {EarnObject(EarnFieldNames, JInt(n), JStr(<<"b">>)) : n \in 1..2} \cup
    {EarnObject(EarnFieldNames, JInt(1), JNull)}
ConcurrentWebhookBodies ==
    {WebhookObject(WebhookFieldNames, JStr(<<"a", " ">>), JObject([k |-> JInt(1)]))}

\* The bodies sent while the headers are varied.
AuthEarnBodies == {EarnObject(EarnFieldNames, JInt(1), JStr(<<"b">>))}
AuthWebhookBodies == ConcurrentWebhookBodies

\* The credits sent while the ledger history is read.
LedgerApiKeys == {Hdr(TrustedKey)}
LedgerEarnBodies == {EarnObject(EarnFieldNames, JInt(n), JStr(<<"b">>)) : n \in 1..2}

(***************************************************************************)
(* Python and library semantics the handlers rely on                       *)
(***************************************************************************)
Digits == {"0", "1", "2"}
DigitValue(c) == CASE c = "0" -> 0 [] c = "1" -> 1 [] c = "2" -> 2

RECURSIVE Strip(_)
\* str.strip(): leading and trailing whitespace removed.
Strip(s) ==
    IF s = <<>> THEN s
    ELSE IF Head(s) = " " THEN Strip(Tail(s))
    ELSE IF s[Len(s)] = " " THEN Strip(SubSeq(s, 1, Len(s) - 1))
    ELSE s

RECURSIVE DecimalValue(_)
DecimalValue(s) ==
    IF s = <<>> THEN 0
    ELSE 10 * DecimalValue(SubSeq(s, 1, Len(s) - 1)) + DigitValue(s[Len(s)])

Returned(v) == [exc |-> "none", v |-> v]
Raised(e) == [exc |-> e]

\* int(str): optional surrounding whitespace, an optional sign, decimal digits.
IntOfStr(s) ==
    LET u == Strip(s)
        signed == u # <<>> /\ Head(u) \in {"-", "+"}
        digits == IF signed THEN Tail(u) ELSE u
    IN  IF digits # <<>> /\ \A i \in 1..Len(digits) : digits[i] \in Digits
        THEN Returned(IF signed /\ Head(u) = "-"
                      THEN 0 - DecimalValue(digits) ELSE DecimalValue(digits))
        ELSE Raised("ValueError")

\* int(float): truncation toward zero.
IntOfFloat(h) == IF h >= 0 THEN h \div 2 ELSE 0 - ((0 - h) \div 2)

\* int(x) for a JSON value x as request.get_json() delivers it.
PyInt(x) ==
    CASE x.t = "int" -> Returned(x.n)
      [] x.t = "bool" -> Returned(IF x.b THEN 1 ELSE 0)
      [] x.t = "float" -> Returned(IntOfFloat(x.halves))
      [] x.t = "str" -> IntOfStr(x.s)
      [] OTHER -> Raised("TypeError")

\* bool(data) for a request body.
Truthy(data) ==
    CASE data.t = "null" -> FALSE
      [] data.t = "number" -> TRUE
      [] data.t = "list" -> data.items # {}
      [] data.t = "object" -> DOMAIN data.fields # {}

\* key in data
Contains(data, key) ==
    CASE data.t = "number" -> Raised("TypeError")
      [] data.t = "list" -> Returned(key \in data.items)
      [] data.t = "object" -> Returned(key \in DOMAIN data.fields)

\* data[key], the key known to be "in" data
GetItem(data, key) ==
    IF data.t = "object" THEN Returned(data.fields[key]) ELSE Raised("TypeError")

\* bool(x) for a JSON value.
TruthyValue(x) ==
    CASE x.t = "null" -> FALSE
      [] x.t = "int" -> x.n # 0
      [] x.t = "float" -> x.halves # 0
      [] x.t = "bool" -> x.b
      [] x.t = "str" -> x.s # <<>>
      [] x.t = "list" -> x.items # {}
      [] x.t = "object" -> DOMAIN x.fields # {}

\* data.get(key): None when the key is missing; only a dict has get.
DictGet(data, key) ==
    IF data.t # "object" THEN Raised("AttributeError")
    ELSE IF key \in DOMAIN data.fields THEN Returned(data.fields[key])
    ELSE Returned(JNull)

UpperChar(c) == CASE c = "a" -> "A" [] c = "b" -> "B" [] OTHER -> c

\* str.upper()
Upper(s) == [i \in 1..Len(s) |-> UpperChar(s[i])]

\* str.replace(' ', '_')
ReplaceSpaces(s) == [i \in 1..Len(s) |-> IF s[i] = " " THEN "_" ELSE s[i]]

\* A variant that raises the generic error for an expired token too.
JwtDecode_NoExpiryError(jwt, secret) ==
    IF jwt.form # "jwt" THEN Raised("InvalidTokenError")
    ELSE IF jwt.key # secret THEN Raised("InvalidTokenError")
    ELSE IF jwt.exp = "past" THEN Raised("InvalidTokenError")
    ELSE Returned([sub |-> jwt.sub])

\* A variant that validates the exp claim before the signature.
JwtDecode_ExpiryFirst(jwt, secret) ==
    IF jwt.form # "jwt" THEN Raised("InvalidTokenError")
    ELSE IF jwt.exp = "past" THEN Raised("ExpiredSignatureError")
    ELSE IF jwt.key # secret THEN Raised("InvalidTokenError")
    ELSE Returned([sub |-> jwt.sub])

\* jwt.decode(token, secret, algorithms=["HS256"]): structure and signature
\* first, then the exp claim.
JwtDecode(jwt, secret) ==
    IF jwt.form # "jwt" THEN Raised("InvalidTokenError")
    ELSE IF jwt.key # secret THEN Raised("InvalidTokenError")
    ELSE IF jwt.exp = "past" THEN Raised("ExpiredSignatureError")
    ELSE Returned([sub |-> jwt.sub])

(***************************************************************************)
(* The store                                                               *)
(***************************************************************************)
\* The ids of the kones_balance rows of an identity.
BalanceRows(uid) ==
    {i \in 1..Len(kones_balance) : kones_balance[i].user_auth_uid = uid}

\* The ids of the kones_ledger rows of an identity.
LedgerRows(uid) ==
    {i \in 1..Len(kones_ledger) : kones_ledger[i].user_auth_uid = uid}

\* KonesBalance.query.filter_by(user_auth_uid=uid).first(): the query has no
\* ORDER BY, so any matching row may come back; 0 stands for None.
BalanceQueryFirst(uid) == IF BalanceRows(uid) = {} THEN {0} ELSE BalanceRows(uid)

(***************************************************************************)
(* Decorators                                                              *)
(***************************************************************************)
Response(status, message) == [status |-> status, message |-> message]

InternalServerError == Response(500, "Internal Server Error")

\* A variant that compares the first character only.
trusted_service_required_FirstChar(api_key) ==
    /\ api_key.present
    /\ api_key.v # <<>>
    /\ config.TRUSTED_SERVICE_API_KEY # <<>>
    /\ Head(api_key.v) = Head(config.TRUSTED_SERVICE_API_KEY)

\* A variant without the key comparison: the wrapped function always runs.
trusted_service_required_Skipped(api_key) == TRUE

\* trusted_service_required: TRUE when the wrapped function is called.
trusted_service_required(api_key) ==
    ~(api_key # Hdr(config.TRUSTED_SERVICE_API_KEY))

\* A variant that looks the user up before it tests the sub claim.
get_user_from_auth_header_LookupFirst(token) ==
    IF token.hdr # "bearer"
    THEN [ok |-> FALSE,
          response |-> Response(401, "Missing or invalid Authorization header.")]
    ELSE IF config.SUPABASE_JWT_SECRET = <<>>
    THEN [ok |-> FALSE, response |-> Response(500, "Server misconfiguration.")]
    ELSE LET payload == JwtDecode(token.jwt, config.SUPABASE_JWT_SECRET)
         IN  CASE payload.exc = "ExpiredSignatureError" ->
                    [ok |-> FALSE, response |-> Response(401, "JWT has expired.")]
               [] payload.exc = "InvalidTokenError" ->
                    [ok |-> FALSE, response |-> Response(401, "Invalid format.")]
               [] OTHER ->
                    IF payload.v.sub \notin user
                    THEN [ok |-> FALSE,
                          response |-> Response(404, "User not found in database.")]
                    ELSE IF payload.v.sub = "none"
                    THEN [ok |-> FALSE,
                          response |-> Response(401, "Invalid JWT payload.")]
                    ELSE [ok |-> TRUE, current_user |-> payload.v.sub]

\* get_user_from_auth_header: the response it returns itself, or the User row
\* it passes to the wrapped function as current_user.
get_user_from_auth_header(token) ==
    IF token.hdr # "bearer"
    THEN [ok |-> FALSE,
          response |-> Response(401, "Missing or invalid Authorization header.")]
    ELSE IF config.SUPABASE_JWT_SECRET = <<>>
    THEN [ok |-> FALSE, response |-> Response(500, "Server misconfiguration.")]
    ELSE LET payload == JwtDecode(token.jwt, config.SUPABASE_JWT_SECRET)
         IN  CASE payload.exc = "ExpiredSignatureError" ->
                    [ok |-> FALSE, response |-> Response(401, "JWT has expired.")]
               [] payload.exc = "InvalidTokenError" ->
                    [ok |-> FALSE, response |-> Response(401, "Invalid format.")]
               [] OTHER ->
                    IF payload.v.sub = "none"
                    THEN [ok |-> FALSE,
                          response |-> Response(401, "Invalid JWT payload.")]
                    ELSE IF payload.v.sub \notin user
                    THEN [ok |-> FALSE,
                          response |-> Response(404, "User not found in database.")]
                    ELSE [ok |-> TRUE, current_user |-> payload.v.sub]

\* A variant with the decorators stacked the other way round.
trusted_route_TokenFirst(api_key, token) ==
    LET auth == get_user_from_auth_header(token)
    IN  IF ~auth.ok THEN auth
        ELSE IF ~trusted_service_required(api_key)
        THEN [ok |-> FALSE,
              response |-> Response(403, "Invalid API Key for trusted service.")]
        ELSE auth

\* @trusted_service_required above @get_user_from_auth_header (lines 150-151
\* and 210-211): the outer decorator runs first and calls the inner one.
trusted_route(api_key, token) ==
    IF ~trusted_service_required(api_key)
    THEN [ok |-> FALSE,
          response |-> Response(403, "Invalid API Key for trusted service.")]
    ELSE get_user_from_auth_header(token)

(***************************************************************************)
(* POST /earn/kones                                                        *)
(***************************************************************************)
\* Lines 157-172: the validation of the body.  Either a response, or the
\* amount and description the handler goes on with.  An exception no except
\* clause catches leaves the handler and Flask answers 500.
earn_kones_validate(data) ==
    LET has_amount == Contains(data, "amount")
        has_description == Contains(data, "description")
        missing == Response(400, "Missing required fields: amount and description.")
    IN  IF ~Truthy(data) THEN [ok |-> FALSE, response |-> missing]
        ELSE IF has_amount.exc # "none" THEN [ok |-> FALSE, response |-> InternalServerError]
        ELSE IF ~has_amount.v THEN [ok |-> FALSE, response |-> missing]
        ELSE IF ~has_description.v THEN [ok |-> FALSE, response |-> missing]
        ELSE IF GetItem(data, "amount").exc # "none"
        THEN [ok |-> FALSE, response |-> InternalServerError]
        ELSE LET amount == PyInt(GetItem(data, "amount").v)
             IN  CASE amount.exc = "ValueError" ->
                        [ok |-> FALSE,
                         response |-> Response(400, "Amount must be an integer.")]
                   [] amount.exc = "TypeError" ->
                        [ok |-> FALSE, response |-> InternalServerError]
                   [] OTHER ->
                        IF amount.v <= 0
                        THEN [ok |-> FALSE,
                              response |-> Response(400, "Amount must be positive.")]
                        ELSE [ok |-> TRUE, amount |-> amount.v,
                              description |-> GetItem(data, "description").v]

\* A variant that assigns the amount instead of adding it.
NewBalance_Overwrite(loaded, amount) == amount

\* balance_record.balance += amount, on the value the query loaded (0 for the
\* record the handler has just created).
NewBalance(loaded, amount) == loaded + amount

\* The balance an identity holds: 0 without a row.
BalanceHeld(uid) ==
    IF BalanceRows(uid) = {} THEN 0
    ELSE kones_balance[CHOOSE i \in BalanceRows(uid) : \A j \in BalanceRows(uid) : i <= j].balance

Idle == [pc |-> "idle"]

NoBody == [t |-> "unread"]

\* What `last` records of an answered request.
Answered(route, api_key, token, body, response, extra) ==
    [route |-> route, api_key |-> api_key, token |-> token, body |-> body,
     status |-> response.status, message |-> response.message, result |-> extra]

NoResult == [none |-> TRUE]

NoAnswer == [route |-> "none"]

\* A request answered within one step: nothing is written.
Answer(route, api_key, token, body, response) ==
    /\ last' = Answered(route, api_key, token, body, response, NoResult)
    /\ UNCHANGED <<config, user, kones_balance, kones_ledger, chronolog, clock, session,
                   other_programs>>

\* Lines 149-199: the decorators, the validation, the balance query and the
\* changes made to the session's objects; nothing is written before commit.
\* The request is drawn from api_keys, tokens and bodies.
earn_kones(w, api_keys, tokens, bodies) ==
    /\ session[w].pc = "idle"
    /\ \E api_key \in api_keys, token \in tokens :
         LET auth == trusted_route(api_key, token)
         IN  IF ~auth.ok
                  THEN Answer("earn", api_key, token, NoBody, auth.response)
                  ELSE \E data \in bodies :
                         LET valid == earn_kones_validate(data)
                         IN  IF ~valid.ok
                             THEN Answer("earn", api_key, token, data, valid.response)
                             ELSE \E balance_id \in BalanceQueryFirst(auth.current_user) :
                                    LET loaded == IF balance_id = 0 THEN 0
                                                  ELSE kones_balance[balance_id].balance
                                    IN  /\ session' = [session EXCEPT ![w] =
                                              [pc |-> "pending",
                                               api_key |-> api_key,
                                               token |-> token,
                                               body |-> data,
                                               current_user |-> auth.current_user,
                                               balance_id |-> balance_id,
                                               created |-> balance_id = 0,
                                               balance |-> NewBalance(loaded, valid.amount),
                                               amount |-> valid.amount,
                                               description |-> valid.description,
                                               now |-> clock,
                                               old_balance |-> BalanceHeld(auth.current_user),
                                               old_entries |-> LedgerRows(auth.current_user)]]
                                        /\ clock' = clock + 1
                                        /\ last' = NoAnswer
                                        /\ UNCHANGED <<config, user, kones_balance,
                                                       kones_ledger, chronolog,
                                                       other_programs>>

\* A variant whose UPDATE has no WHERE clause: every row takes the balance.
FlushedBalance_NoWhere(s) ==
    IF s.balance_id = 0
    THEN Append(kones_balance, [user_auth_uid |-> s.current_user, balance |-> s.balance,
                                last_updated |-> s.now])
    ELSE [i \in DOMAIN kones_balance |->
            [kones_balance[i] EXCEPT !.balance = s.balance, !.last_updated = s.now]]

\* The rows db.session.commit() flushes for the session of a credit: the
\* balance row (inserted when the query found none, updated by id otherwise)
\* and the ledger row.
FlushedBalance(s) ==
    LET row == [user_auth_uid |-> s.current_user, balance |-> s.balance,
                last_updated |-> s.now]
    IN  IF s.balance_id = 0 THEN Append(kones_balance, row)
        ELSE [kones_balance EXCEPT ![s.balance_id] = row]

\* A variant that never adds the ledger entry to the session.
FlushedLedger_Dropped(s) == kones_ledger

\* A variant that writes the entry over the newest ledger row.
FlushedLedger_Overwriting(s) ==
    LET row == [user_auth_uid |-> s.current_user, amount |-> s.amount,
                description |-> s.description.s, timestamp |-> s.now]
    IN  IF kones_ledger = <<>> THEN <<row>>
        ELSE [kones_ledger EXCEPT ![Len(kones_ledger)] = row]

FlushedLedger(s) ==
    Append(kones_ledger,
           [user_auth_uid |-> s.current_user, amount |-> s.amount,
            description |-> s.description.s, timestamp |-> s.now])

\* kones_ledger.description is NOT NULL (models.py): a null description makes
\* the INSERT, and with it the transaction, fail.
FlushFails(s) == s.description.t = "null"

\* Line 201, db.session.commit(): both rows in one transaction.  When the
\* flush fails, or the store does (storage_ok = FALSE), the transaction is
\* rolled back, the exception leaves the handler and Flask answers 500.
earn_kones_commit(w) ==
    /\ session[w].pc = "pending"
    /\ \E storage_ok \in BOOLEAN :
         LET s == session[w]
         IN  IF FlushFails(s) \/ ~storage_ok
             THEN /\ last' = Answered("earn", s.api_key, s.token, s.body,
                                      InternalServerError, [commit_failed |-> TRUE])
                  /\ session' = [session EXCEPT ![w] = Idle]
                  /\ UNCHANGED <<config, user, kones_balance, kones_ledger,
                                 chronolog, clock, other_programs>>
             ELSE /\ kones_balance' = FlushedBalance(s)
                  /\ kones_ledger' = FlushedLedger(s)
                  /\ session' = [session EXCEPT ![w] =
                        [s EXCEPT !.pc = "committed",
                                  !.balance_id = IF s.balance_id = 0
                                                 THEN Len(kones_balance) + 1
                                                 ELSE s.balance_id]]
                  /\ last' = NoAnswer
                  /\ UNCHANGED <<config, user, chronolog, clock, other_programs>>

\* Lines 203-206: the response.  The commit expired balance_record, so reading
\* balance_record.balance loads the row again.
earn_kones_respond(w) ==
    /\ session[w].pc = "committed"
    /\ LET s == session[w]
       IN  last' = Answered("earn", s.api_key, s.token, s.body,
                            Response(200, "Successfully added Kones."),
                            [current_user |-> s.current_user,
                             amount |-> s.amount,
                             description |-> s.description,
                             new_balance |-> kones_balance[s.balance_id].balance,
                             old_balance |-> s.old_balance,
                             old_entries |-> s.old_entries])
    /\ session' = [session EXCEPT ![w] = Idle]
    /\ UNCHANGED <<config, user, kones_balance, kones_ledger, chronolog, clock,
                   other_programs>>

(***************************************************************************)
(* POST /webhook/sync                                                      *)
(***************************************************************************)
WebhookPrefix == <<"W", "E", "B", "H", "O", "O", "K", "_">>

\* A variant that leaves the spaces in.
LogEvent_SpacesKept(event_type) == WebhookPrefix \o Upper(event_type)

\* Line 227: f"WEBHOOK_{event_type.upper().replace(' ', '_')}"
LogEvent(event_type) == WebhookPrefix \o ReplaceSpaces(Upper(event_type))

\* Lines 217-227: either a response, or the log_event and payload to store.
webhook_sync_validate(data) ==
    LET event_type == DictGet(data, "event_type")
        payload == DictGet(data, "payload")
    IN  IF event_type.exc # "none" THEN [ok |-> FALSE, response |-> InternalServerError]
        ELSE IF ~TruthyValue(event_type.v) \/ ~TruthyValue(payload.v)
        THEN [ok |-> FALSE,
              response |-> Response(400, "Request must include 'event_type' and 'payload'.")]
        ELSE IF event_type.v.t # "str"
        THEN [ok |-> FALSE, response |-> InternalServerError]
        ELSE [ok |-> TRUE, log_event |-> LogEvent(event_type.v.s), payload |-> payload.v]

\* A variant that stores no payload.
ChronologEntry_NoPayload(current_user, log_event, payload, now) ==
    [user_auth_uid |-> current_user, event_type |-> log_event,
     payload |-> JNull, timestamp |-> now]

\* Lines 230-236: the Chronolog row the handler builds.
ChronologEntry(current_user, log_event, payload, now) ==
    [user_auth_uid |-> current_user, event_type |-> log_event,
     payload |-> payload, timestamp |-> now]

\* Lines 209-243, the whole handler: it reads no table but user, and writes
\* its one row in the transaction of its one commit.
webhook_sync(w, api_keys, tokens, bodies) ==
    /\ session[w].pc = "idle"
    /\ \E api_key \in api_keys, token \in tokens :
         LET auth == trusted_route(api_key, token)
         IN  IF ~auth.ok
                  THEN Answer("webhook", api_key, token, NoBody, auth.response)
                  ELSE \E data \in bodies :
                         LET valid == webhook_sync_validate(data)
                         IN  IF ~valid.ok
                             THEN Answer("webhook", api_key, token, data, valid.response)
                             ELSE /\ clock' = clock + 1
                                  /\ UNCHANGED <<config, user, kones_balance,
                                                 kones_ledger, session, other_programs>>
                                  /\ \E storage_ok \in BOOLEAN :
                                     IF storage_ok
                                     THEN /\ chronolog' = Append(chronolog,
                                                ChronologEntry(auth.current_user,
                                                               valid.log_event,
                                                               valid.payload, clock))
                                          /\ last' = Answered("webhook", api_key, token, data,
                                                Response(200, "Webhook event processed."),
                                                [current_user |-> auth.current_user,
                                                 event_type |-> valid.log_event])
                                     ELSE /\ chronolog' = chronolog
                                          /\ last' = Answered("webhook", api_key, token, data,
                                                InternalServerError,
                                                [commit_failed |-> TRUE])

(***************************************************************************)
(* GET /posts                                                              *)
(***************************************************************************)
\* A variant that logs the access in the audit trail.
list_posts_Logging(w, tokens) ==
    /\ session[w].pc = "idle"
    /\ \E token \in tokens :
         LET auth == get_user_from_auth_header(token)
         IN  IF ~auth.ok
             THEN Answer("posts", NoHdr, token, NoBody, auth.response)
             ELSE /\ last' = Answered("posts", NoHdr, token, NoBody,
                            Response(200, "Access granted. Listing personalized content."),
                            [current_user |-> auth.current_user])
                  /\ chronolog' = Append(chronolog,
                        ChronologEntry(auth.current_user, <<"P">>, JNull, clock))
                  /\ UNCHANGED <<config, user, kones_balance, kones_ledger,
                                 clock, session, other_programs>>

\* Lines 131-146: behind get_user_from_auth_header only; the X-Api-Key header
\* is not read.
list_posts(w, tokens) ==
    /\ session[w].pc = "idle"
    /\ \E token \in tokens :
         LET auth == get_user_from_auth_header(token)
         IN  IF ~auth.ok
             THEN Answer("posts", NoHdr, token, NoBody, auth.response)
             ELSE /\ last' = Answered("posts", NoHdr, token, NoBody,
                            Response(200, "Access granted. Listing personalized content."),
                            [current_user |-> auth.current_user])
                  /\ UNCHANGED <<config, user, kones_balance, kones_ledger,
                                 chronolog, clock, session, other_programs>>

(***************************************************************************)
(* The ledger history read (kaisurf_test.py, GET /kones/ledger)            *)
(***************************************************************************)
RECURSIVE NewestFirst_Ascending(_)
\* A variant that orders by timestamp ascending.
NewestFirst_Ascending(ids) ==
    IF ids = {} THEN <<>>
    ELSE LET i == CHOOSE j \in ids :
                    \A k \in ids : kones_ledger[j].timestamp <= kones_ledger[k].timestamp
         IN  <<i>> \o NewestFirst_Ascending(ids \ {i})

RECURSIVE NewestFirst(_)
\* order_by(KonesLedger.timestamp.desc()): ledger row ids by timestamp,
\* newest first.
NewestFirst(ids) ==
    IF ids = {} THEN <<>>
    ELSE LET i == CHOOSE j \in ids :
                    \A k \in ids : kones_ledger[k].timestamp <= kones_ledger[j].timestamp
         IN  <<i>> \o NewestFirst(ids \ {i})

\* The ledger history of an identity: filter_by(user_id=...), ordered, .all().
History(uid) == NewestFirst(LedgerRows(uid))

\* Lines 265-274: one query, and one JSON object per row it returns.  The
\* answer keeps the ids of the rows beside the objects.
get_kones_ledger(w, uids) ==
    /\ session[w].pc = "idle"
    /\ \E uid \in uids :
         LET ledger_entries == History(uid)
         IN  last' = [route |-> "ledger", current_user |-> uid, status |-> 200,
                      ids |-> ledger_entries,
                      history |-> [i \in 1..Len(ledger_entries) |->
                          [timestamp |-> kones_ledger[ledger_entries[i]].timestamp,
                           amount |-> kones_ledger[ledger_entries[i]].amount,
                           description |-> kones_ledger[ledger_entries[i]].description]]]
    /\ UNCHANGED <<config, user, kones_balance, kones_ledger, chronolog, clock, session,
                   other_programs>>

(***************************************************************************)
(* kaisurf_test.py: registration, login and the session-header routes      *)
(***************************************************************************)
MaxDay == 2             \* the days the application is followed over
MaxLoginRecords == 2    \* the login_record rows the database is followed up to

\* Two roaming ids that differ in their inner whitespace only, and one nobody
\* registers.
RoamingIds == {<<"a", " ", "b">>, <<"a", " ", " ", "b">>}

\* A user row that is gone from the table while a login_record row names it.
UnknownUserId == 9

\* str.split(): the words between runs of whitespace.
RECURSIVE Split(_)
Split(s) ==
    IF s = <<>> THEN <<>>
    ELSE IF Head(s) = " " THEN Split(Tail(s))
    ELSE LET word_end ==
                 IF \E i \in 1..Len(s) : s[i] = " "
                 THEN CHOOSE i \in 1..Len(s) :
                          s[i] = " " /\ \A j \in 1..(i - 1) : s[j] # " "
                 ELSE Len(s) + 1
         IN  <<SubSeq(s, 1, word_end - 1)>> \o Split(SubSeq(s, word_end, Len(s)))

\* Lines 157-161, datetime.date.today() being the date given: None, or
\* "<word>-<date>-<word>".
get_daily_username(roaming_id, date) ==
    LET isoformat == <<"2026-01-0", CASE date = 1 -> "1" [] date = 2 -> "2"
                                      [] date = 3 -> "3" [] OTHER -> "4">>
        words == Split(roaming_id)
    IN  IF Len(words) # 2 THEN JNull
        ELSE JStr(words[1] \o <<"-">> \o isoformat \o <<"-">> \o words[2])

\* The requests sent to /register and /login, and the X-Auth-Username headers.
RegisterBodies ==
    {JObject([roaming_id |-> JStr(r)]) :
        r \in RoamingIds \cup {<<"a", " ", "b", " ">>, <<"a">>}} \cup
    {JObject([other |-> JInt(1)]), JNull}

LoginUsernames ==
    {get_daily_username(r, d) : r \in RoamingIds, d \in 1..MaxDay} \cup {JStr(<<"a", "-", "b">>)}

LoginBodies ==
    {JObject([roaming_id |-> JStr(r), username |-> n]) :
        r \in RoamingIds, n \in LoginUsernames} \cup
    {JObject([roaming_id |-> JStr(<<"x", " ", "y">>),
              username |-> get_daily_username(<<"x", " ", "y">>, 1)]),
     JObject([roaming_id |-> JStr(<<"a", " ", "b">>)]),
     JObject([username |-> get_daily_username(<<"a", " ", "b">>, 1)]),
     JList({"roaming_id", "username"}), JNull}

AuthUsernames ==
    {Hdr(n.s) : n \in LoginUsernames} \cup {Hdr(<<>>), NoHdr}

\* The rows of a user, and User.query.filter_by(roaming_id=...).first().
UserIds(roaming_id) == {i \in DOMAIN User : JStr(User[i]) = roaming_id}

BalanceOf(user_id) == {row \in KonesBalance : row.user_id = user_id}

\* A response of the application, with the request it answers.
NoReply == [route |-> "none"]

Replied(route, request, response, result) ==
    [route |-> route, request |-> request, status |-> response.status,
     message |-> response.message, result |-> result]

\* Lines 205-215: the checks of /register and its first commit, which stores
\* the user.  One registration is followed at a time.
register(bodies) ==
    /\ registration.pc = "idle"
    /\ \E data \in bodies :
         IF data.t # "object"
         THEN /\ reply' = Replied("register", NoBody, InternalServerError, NoResult)
              /\ UNCHANGED <<User, registration>>
         ELSE LET given == IF "roaming_id" \in DOMAIN data.fields
                           THEN data.fields.roaming_id.s ELSE <<>>
                  roaming_id == Strip(given)
              IN  IF Len(Split(roaming_id)) # 2
                  THEN /\ reply' = Replied("register", NoBody,
                                           Response(400, "Registration requires a 'roaming_id' of exactly two words."),
                                           NoResult)
                       /\ UNCHANGED <<User, registration>>
                  ELSE IF UserIds(JStr(roaming_id)) # {}
                  THEN /\ reply' = Replied("register", NoBody,
                                           Response(202, "Registration request processed."),
                                           NoResult)
                       /\ UNCHANGED <<User, registration>>
                  ELSE \E storage_ok \in BOOLEAN :
                         IF storage_ok
                         THEN /\ User' = Append(User, roaming_id)
                              /\ registration' = [pc |-> "user_added",
                                                  user_id |-> Len(User) + 1]
                              /\ reply' = NoReply
                         ELSE /\ reply' = Replied("register", NoBody, InternalServerError,
                                                  NoResult)
                              /\ UNCHANGED <<User, registration>>
    /\ UNCHANGED <<LoginRecord, KonesBalance, ChronoLog, today, utcnow>>
    /\ UNCHANGED <<api_vars, addon_vars, tab_vars>>

\* Lines 216-221: the balance row and the REGISTRATION log entry, in the
\* second commit.  kones_balance.user_id is the primary key: the INSERT fails
\* when the user has a row already, and the transaction is rolled back.
register_commit ==
    /\ registration.pc = "user_added"
    /\ \E storage_ok \in BOOLEAN :
         IF storage_ok /\ BalanceOf(registration.user_id) = {}
         THEN /\ KonesBalance' = KonesBalance \cup
                    {[user_id |-> registration.user_id, balance |-> 0]}
              /\ ChronoLog' = Append(ChronoLog, [user_id |-> registration.user_id,
                                                 activity_type |-> "REGISTRATION"])
              /\ reply' = Replied("register", NoBody,
                                  Response(202, "Registration request processed."),
                                  NoResult)
         ELSE /\ reply' = Replied("register", NoBody,
                                  InternalServerError, NoResult)
              /\ UNCHANGED <<KonesBalance, ChronoLog>>
    /\ registration' = [pc |-> "idle"]
    /\ UNCHANGED <<User, LoginRecord, today, utcnow>>
    /\ UNCHANGED <<api_vars, addon_vars, tab_vars>>

\* A variant that accepts any username.
CredentialsMatch_Always(username, expected_username) == TRUE

\* Line 232: data['username'] == expected_username
CredentialsMatch(username, expected_username) == username = expected_username

\* Lines 223-237: /login.
login(bodies) ==
    /\ Len(LoginRecord) < MaxLoginRecords
    /\ \E data \in bodies :
         LET fails(response) ==
                 /\ reply' = Replied("login", data, response, NoResult)
                 /\ UNCHANGED <<LoginRecord, ChronoLog, utcnow>>
         IN  IF ~Truthy(data) \/ ~Contains(data, "roaming_id").v
                \/ ~Contains(data, "username").v
             THEN fails(Response(400, "Roaming ID and username are required."))
             ELSE IF GetItem(data, "roaming_id").exc # "none"
             THEN fails(InternalServerError)
             ELSE LET roaming_id == data.fields.roaming_id
                      username == data.fields.username
                      found == UserIds(roaming_id)
                  IN  IF found = {}
                      THEN fails(Response(401, "Invalid credentials."))
                      ELSE LET user_id == CHOOSE i \in found : TRUE
                               expected_username == get_daily_username(roaming_id.s, today)
                           IN  IF ~CredentialsMatch(username, expected_username)
                               THEN fails(Response(401, "Invalid credentials."))
                               ELSE \E storage_ok \in BOOLEAN :
                                      IF ~storage_ok THEN fails(InternalServerError)
                                      ELSE /\ LoginRecord' = Append(LoginRecord,
                                                [user_id |-> user_id,
                                                 login_username |-> username.s,
                                                 login_timestamp |->
                                                    [date |-> today, time |-> utcnow]])
                                           /\ ChronoLog' = Append(ChronoLog,
                                                [user_id |-> user_id,
                                                 activity_type |-> "LOGIN"])
                                           /\ utcnow' = utcnow + 1
                                           /\ reply' = Replied("login", data,
                                                Response(200, "Access Granted"),
                                                [auth_username |-> expected_username])
    /\ UNCHANGED <<User, KonesBalance, today, registration>>
    /\ UNCHANGED <<api_vars, addon_vars, tab_vars>>

\* A variant that takes the oldest record of the username.
FirstByTimestampDesc_Ascending(records) ==
    CHOOSE i \in records :
        \A j \in records :
            LoginRecord[i].login_timestamp.time <= LoginRecord[j].login_timestamp.time

\* Lines 174-175: order_by(LoginRecord.login_timestamp.desc()).first()
FirstByTimestampDesc(records) ==
    CHOOSE i \in records :
        \A j \in records :
            LoginRecord[i].login_timestamp.time >= LoginRecord[j].login_timestamp.time

\* Lines 167-182: either a response, or the user to put in g.user.
require_auth(auth_username) ==
    IF ~auth_username.present \/ auth_username.v = <<>>
    THEN [ok |-> FALSE, response |-> Response(401, "Authentication username required.")]
    ELSE LET records == {i \in DOMAIN LoginRecord :
                            LoginRecord[i].login_username = auth_username.v}
         IN  IF records = {}
             THEN [ok |-> FALSE,
                   response |-> Response(403, "Invalid or expired session username.")]
             ELSE LET record == LoginRecord[FirstByTimestampDesc(records)]
                  IN  IF record.user_id \notin DOMAIN User
                      THEN [ok |-> FALSE,
                            response |-> Response(404, "Authenticated user not found.")]
                      ELSE [ok |-> TRUE, user |-> record.user_id]

\* Lines 255-263: GET /kones/balance.  A user without a balance row is given
\* one, holding 0, and the insert is committed.
get_kones_balance(auth_usernames) ==
    /\ \E auth_username \in auth_usernames :
         LET auth == require_auth(auth_username)
         IN  IF ~auth.ok
             THEN /\ reply' = Replied("balance", auth_username, auth.response, NoResult)
                  /\ UNCHANGED KonesBalance
             ELSE IF BalanceOf(auth.user) # {}
             THEN /\ reply' = Replied("balance", auth_username, Response(200, "OK"),
                        [user_id |-> auth.user,
                         kone_balance |-> (CHOOSE row \in BalanceOf(auth.user) : TRUE).balance])
                  /\ UNCHANGED KonesBalance
             ELSE \E storage_ok \in BOOLEAN :
                    IF storage_ok
                    THEN /\ KonesBalance' = KonesBalance \cup
                               {[user_id |-> auth.user, balance |-> 0]}
                         /\ reply' = Replied("balance", auth_username, Response(200, "OK"),
                               [user_id |-> auth.user, kone_balance |-> 0])
                    ELSE /\ reply' = Replied("balance", auth_username, InternalServerError,
                               [user_id |-> auth.user])
                         /\ UNCHANGED KonesBalance
    /\ UNCHANGED <<User, LoginRecord, ChronoLog, today, utcnow, registration>>
    /\ UNCHANGED <<api_vars, addon_vars, tab_vars>>

\* Lines 265-274 behind the decorator: GET /kones/ledger.  No route of this
\* application writes its kones_ledger table: the history is empty.
get_kones_ledger_authenticated(auth_usernames) ==
    /\ \E auth_username \in auth_usernames :
         LET auth == require_auth(auth_username)
         IN  IF ~auth.ok
             THEN reply' = Replied("ledger", auth_username, auth.response, NoResult)
             ELSE reply' = Replied("ledger", auth_username, Response(200, "OK"),
                                   [user_id |-> auth.user, history |-> <<>>])
    /\ UNCHANGED <<User, LoginRecord, KonesBalance, ChronoLog, today, utcnow,
                   registration>>
    /\ UNCHANGED <<api_vars, addon_vars, tab_vars>>

\* Line 158: datetime.date.today() moves on at midnight.
midnight ==
    /\ today < MaxDay
    /\ today' = today + 1
    /\ reply' = NoReply
    /\ UNCHANGED <<User, LoginRecord, KonesBalance, ChronoLog, utcnow, registration>>
    /\ UNCHANGED <<api_vars, addon_vars, tab_vars>>

\* db.create_all() on an empty database.
LegacyEmpty ==
    /\ User = <<>>
    /\ LoginRecord = <<>>
    /\ KonesBalance = {}
    /\ ChronoLog = <<>>
    /\ today = 1
    /\ utcnow = 1
    /\ registration = [pc |-> "idle"]
    /\ reply = NoReply

(***************************************************************************)
(* Koralai_Surf_v.0.2.py: loading the add-ons                              *)
(***************************************************************************)
MaxAddons == 3      \* the entries of the addons folder

AddonNames == <<"d1", "d2", "d3", "d4">>

\* What an entry of the addons folder can hold: a sound add-on, a file or a
\* directory without manifest.json, a manifest that is no JSON, a manifest
\* without entry_point, an entry point that cannot be executed, and add-on
\* code whose initialize or setup_ui raises.
AddonKinds ==
    {"sound", "no_manifest", "manifest_unparsable", "no_entry_point",
     "module_unresolvable", "initialize_raises", "setup_ui_raises"}

AddonDirectory(name, kind) ==
    [name |-> name,
     kind |-> kind,
     has_manifest |-> kind # "no_manifest",
     manifest |-> CASE kind = "manifest_unparsable" -> [parses |-> FALSE]
                    [] kind = "no_entry_point" ->
                         [parses |-> TRUE, json |-> [name |-> name]]
                    [] OTHER ->
                         [parses |-> TRUE,
                          json |-> [name |-> name, entry_point |-> "main.py"]],
     module |-> [executes |-> kind # "module_unresolvable",
                 initialize_raises |-> kind = "initialize_raises",
                 setup_ui_raises |-> kind = "setup_ui_raises"]]

\* The folder: whether it exists (it does not in a first run), and its
\* entries in the order os.listdir returns them.
Directory(exists, listing) == [exists |-> exists, listing |-> listing]

\* A variant whose handler catches nothing.
ExceptExceptionCatches_Nothing(e) == FALSE

\* Line 211: except Exception as e.  The exceptions raised while an add-on
\* is loaded all derive from Exception.
ExceptExceptionCatches(e) ==
    e \in {"JSONDecodeError", "TypeError", "FileNotFoundError", "RuntimeError"}

Call(fn, name, arg, raised) == [fn |-> fn, addon |-> name, arg |-> arg, raised |-> raised]

\* A variant that attaches the UI a second time.
load_single_addon_TwiceAttached(d) ==
    [exc |-> "none",
     calls |-> <<Call("initialize", d.name, "bridge", FALSE),
                 Call("setup_ui", d.name, "main_window", FALSE),
                 Call("setup_ui", d.name, "main_window", FALSE)>>,
     registered |-> TRUE, attached |-> TRUE]

\* Lines 214-229: the calls made into the add-on's code, whether the instance
\* was stored in self.addons, whether setup_ui added its button, and the
\* exception that left the function, if one did.
load_single_addon(d) ==
    IF "entry_point" \notin DOMAIN d.manifest.json
    THEN [exc |-> "TypeError", calls |-> <<>>, registered |-> FALSE, attached |-> FALSE]
    ELSE IF ~d.module.executes
    THEN [exc |-> "FileNotFoundError", calls |-> <<>>, registered |-> FALSE,
          attached |-> FALSE]
    ELSE IF d.module.initialize_raises
    THEN [exc |-> "RuntimeError",
          calls |-> <<Call("initialize", d.name, "bridge", TRUE)>>,
          registered |-> FALSE, attached |-> FALSE]
    ELSE IF d.module.setup_ui_raises
    THEN [exc |-> "RuntimeError",
          calls |-> <<Call("initialize", d.name, "bridge", FALSE),
                      Call("setup_ui", d.name, "main_window", TRUE)>>,
          registered |-> TRUE, attached |-> FALSE]
    ELSE [exc |-> "none",
          calls |-> <<Call("initialize", d.name, "bridge", FALSE),
                      Call("setup_ui", d.name, "main_window", FALSE)>>,
          registered |-> TRUE, attached |-> TRUE]

\* Lines 203-212: one entry of the listing.
LoadEntry(d) ==
    IF ~d.has_manifest
    THEN [exc |-> "none", calls |-> <<>>, registered |-> FALSE, attached |-> FALSE]
    ELSE IF ~d.manifest.parses
    THEN [exc |-> "JSONDecodeError", calls |-> <<>>, registered |-> FALSE,
          attached |-> FALSE]
    ELSE load_single_addon(d)

\* Lines 7-13: the instance initialize(bridge) returns.
AgenticAI_Addon(bridge) == [bridge |-> bridge, ui_initialized |-> FALSE]

\* Lines 194-200: load_addons is called by the constructor.  Without the
\* folder it creates it and returns.
load_addons ==
    /\ loading.pc = "constructed"
    /\ IF ~addon_dir.exists
       THEN /\ addon_dir' = Directory(TRUE, <<>>)
            /\ loading' = [pc |-> "returned"]
       ELSE /\ loading' = IF addon_dir.listing = <<>> THEN [pc |-> "returned"]
                          ELSE [pc |-> "listing", position |-> 1]
            /\ UNCHANGED addon_dir
    /\ UNCHANGED <<addons, calls, addon_toolbar, instance, addon_panel_layout,
                   addon_panel, effects>>
    /\ UNCHANGED <<api_vars, legacy_vars, tab_vars>>

\* Lines 202-212: one turn of the loop.  An exception the handler does not
\* catch leaves load_addons.
load_addons_entry ==
    /\ loading.pc = "listing"
    /\ LET d == addon_dir.listing[loading.position]
           loaded == LoadEntry(d)
       IN  /\ calls' = calls \o loaded.calls
           /\ addons' = IF loaded.registered
                        THEN [n \in DOMAIN addons \cup {d.manifest.json.name} |->
                                IF n = d.manifest.json.name THEN d.name ELSE addons[n]]
                        ELSE addons
           /\ instance' = IF loaded.registered
                          THEN [n \in DOMAIN instance \cup {d.name} |->
                                  IF n = d.name THEN AgenticAI_Addon("bridge")
                                  ELSE instance[n]]
                          ELSE instance
           /\ addon_toolbar' = IF loaded.attached THEN Append(addon_toolbar, d.name)
                               ELSE addon_toolbar
           /\ loading' =
                IF loaded.exc # "none" /\ ~ExceptExceptionCatches(loaded.exc)
                THEN [pc |-> "raised"]
                ELSE IF loading.position = Len(addon_dir.listing) THEN [pc |-> "returned"]
                ELSE [pc |-> "listing", position |-> loading.position + 1]
    /\ UNCHANGED <<addon_dir, addon_panel_layout, addon_panel, effects>>
    /\ UNCHANGED <<api_vars, legacy_vars, tab_vars>>

(***************************************************************************)
(* KAIsurfAddOn_v1ai.py: the panel of the add-on                           *)
(***************************************************************************)
PanelWidgets == <<"title", "text_area", "get_text_button", "fill_form_button">>

\* A variant that does not record that the panel was built.
initialize_panel_ui_FlagNotSet(name) ==
    [instance |-> instance,
     addon_panel_layout |->
        addon_panel_layout \o [k \in 1..Len(PanelWidgets) |->
                                  [addon |-> name, widget |-> PanelWidgets[k]]]]

\* Lines 28-52: the four widgets are added to the panel of the window.
initialize_panel_ui(name) ==
    [instance |-> [instance EXCEPT ![name].ui_initialized = TRUE],
     addon_panel_layout |->
        addon_panel_layout \o [k \in 1..Len(PanelWidgets) |->
                                  [addon |-> name, widget |-> PanelWidgets[k]]]]

\* Lines 54-67: the slot of the add-on's button.  The buttons in the toolbar
\* are those of the add-ons whose setup_ui returned; the event loop runs
\* once the constructor, and load_addons with it, has returned.
toggle_panel(name, checked) ==
    /\ loading.pc = "returned"
    /\ \E k \in 1..Len(addon_toolbar) : addon_toolbar[k] = name
    /\ IF checked
       THEN IF ~instance[name].ui_initialized
            THEN LET built == initialize_panel_ui(name)
                 IN  /\ instance' = built.instance
                     /\ addon_panel_layout' = built.addon_panel_layout
                     /\ effects' = [addon |-> name, checked |-> checked,
                                    did |-> <<"initialize_panel_ui", "show", "setSizes">>]
                     /\ addon_panel' = [visible |-> TRUE]
            ELSE /\ effects' = [addon |-> name, checked |-> checked,
                                did |-> <<"show", "setSizes">>]
                 /\ addon_panel' = [visible |-> TRUE]
                 /\ UNCHANGED <<instance, addon_panel_layout>>
       ELSE /\ effects' = [addon |-> name, checked |-> checked, did |-> <<"hide">>]
            /\ addon_panel' = [visible |-> FALSE]
            /\ UNCHANGED <<instance, addon_panel_layout>>
    /\ UNCHANGED <<addon_dir, loading, addons, calls, addon_toolbar>>
    /\ UNCHANGED <<api_vars, legacy_vars, tab_vars>>

\* Lines 63-101 of Koralai_Surf_v.0.2.py, up to the call of load_addons: no
\* add-on, an empty toolbar, the panel hidden.
WindowConstructed ==
    /\ loading = [pc |-> "constructed"]
    /\ addons = <<>>
    /\ calls = <<>>
    /\ addon_toolbar = <<>>
    /\ instance = <<>>
    /\ addon_panel_layout = <<>>
    /\ addon_panel = [visible |-> FALSE]
    /\ effects = [addon |-> "none"]

NoAddons == addon_dir = Directory(FALSE, <<>>) /\ WindowConstructed

(***************************************************************************)
(* koralai_alpha.py and Koralai_Surf_v.0.2.py: the tabs                    *)
(***************************************************************************)
MaxTabs == 3        \* the tabs open at a time
MaxViews == 4       \* the web views created in a run

TitleLimit == 20    \* browser.page().title()[:20]

Homepage == <<"H", "o", "m", "e", "p", "a", "g", "e">>
NewTab == <<"N", "e", "w", " ", "T", "a", "b">>

\* The titles of the pages loaded: a short one, and one of 21 characters.
PageTitles == {<<"K", "A", "i">>, [k \in 1..(TitleLimit + 1) |-> "x"]}

\* title[:20]
Truncated(title) == SubSeq(title, 1, IF Len(title) < TitleLimit THEN Len(title)
                                    ELSE TitleLimit)

\* QTabWidget.removeTab(i), i counted from 0: the tab leaves the bar and the
\* tabs to its right move one place to the left.  The current tab stays
\* current; when it is the one removed, the tab that takes its place (or the
\* new last tab) becomes current.  The web view is not deleted.
removeTab(i) ==
    LET n == Len(tabs.widgets)
    IN  [widgets |-> [k \in 1..(n - 1) |->
                        IF k <= i THEN tabs.widgets[k] ELSE tabs.widgets[k + 1]],
         currentIndex |-> IF i < tabs.currentIndex THEN tabs.currentIndex - 1
                          ELSE IF tabs.currentIndex = n - 1 /\ i = n - 1 THEN n - 2
                          ELSE tabs.currentIndex]

\* QTabWidget.setTabText(i, text): nothing happens when no tab has index i.
setTabText(i, text) ==
    IF i < Len(tabs.widgets)
    THEN [tabs EXCEPT !.widgets[i + 1].text = text]
    ELSE tabs

\* Lines 129-147 (140-149 in v0.2): a new view in a new last tab, made
\* current.  The loadFinished lambda keeps the index i the tab has now.
add_new_tab(label) ==
    /\ is_open
    /\ Len(tabs.widgets) < MaxTabs
    /\ Cardinality(DOMAIN views) < MaxViews
    /\ LET browser == Cardinality(DOMAIN views) + 1
           i == Len(tabs.widgets)
       IN  /\ tabs' = [widgets |-> Append(tabs.widgets, [view |-> browser, text |-> label]),
                       currentIndex |-> i]
           /\ views' = [v \in DOMAIN views \cup {browser} |->
                          IF v = browser THEN [i |-> i] ELSE views[v]]
           /\ event' = [signal |-> "clicked", label |-> label]
    /\ UNCHANGED is_open
    /\ UNCHANGED <<api_vars, legacy_vars, addon_vars>>

\* A variant that closes the window only when no tab is left.
IsLastTab_NoneLeft(count) == count < 1

\* Line 152: self.tabs.count() < 2
IsLastTab(count) == count < 2

\* Lines 150-155 (151-153 in v0.2): the slot of tabCloseRequested(i).
close_tab(i) ==
    /\ is_open
    /\ i \in 0..(Len(tabs.widgets) - 1)
    /\ IF IsLastTab(Len(tabs.widgets))
       THEN /\ is_open' = FALSE
            /\ UNCHANGED tabs
       ELSE /\ tabs' = removeTab(i)
            /\ UNCHANGED is_open
    /\ event' = [signal |-> "tabCloseRequested", i |-> i]
    /\ UNCHANGED views
    /\ UNCHANGED <<api_vars, legacy_vars, addon_vars>>

\* Lines 145-146 (148 in v0.2): the slot of browser.loadFinished, with the
\* title of the page the view has loaded.
loadFinished(browser, title) ==
    /\ is_open
    /\ browser \in DOMAIN views
    /\ tabs' = setTabText(views[browser].i, Truncated(title))
    /\ event' = [signal |-> "loadFinished", browser |-> browser, title |-> title]
    /\ UNCHANGED <<views, is_open>>
    /\ UNCHANGED <<api_vars, legacy_vars, addon_vars>>

\* The constructor: add_new_tab(QUrl(self.homepage), 'Homepage').
OneTab ==
    /\ tabs = [widgets |-> <<[view |-> 1, text |-> Homepage]>>, currentIndex |-> 0]
    /\ views = <<[i |-> 0]>>
    /\ is_open = TRUE
    /\ event = [signal |-> "none"]

(***************************************************************************)
(* Specifications                                                          *)
(***************************************************************************)
Init ==
    /\ config \in [SUPABASE_JWT_SECRET : {JwtSecret, <<>>},
                   TRUSTED_SERVICE_API_KEY : {TrustedKey}]
    /\ user = Identities
    /\ kones_balance = <<>>
    /\ kones_ledger = <<>>
    /\ chronolog = <<>>
    /\ clock = 0
    /\ session = [w \in Workers |-> Idle]
    /\ last = NoAnswer
    /\ LegacyEmpty /\ NoAddons /\ OneTab

\* Workers serve requests concurrently: the steps of two requests interleave.
Next ==
    \E w \in Workers :
        \/ clock < MaxClock
           /\ earn_kones(w, ConcurrentApiKeys, ConcurrentTokens, ConcurrentEarnBodies)
        \/ earn_kones_commit(w)
        \/ earn_kones_respond(w)
        \/ clock < MaxClock
           /\ webhook_sync(w, ConcurrentApiKeys, ConcurrentTokens, ConcurrentWebhookBodies)

Spec == Init /\ [][Next]_vars

\* One worker serves one request at a time, start to end.
SerialWorker == "w1"

SerialNext ==
    \/ clock < MaxSerialClock
       /\ earn_kones(SerialWorker, ApiKeys, Tokens, EarnBodies)
    \/ earn_kones_commit(SerialWorker)
    \/ earn_kones_respond(SerialWorker)
    \/ clock < MaxSerialClock
       /\ webhook_sync(SerialWorker, ApiKeys, Tokens, WebhookBodies)

SerialSpec == Init /\ [][SerialNext]_vars

\* The three routes under every sampled header and configured key, one
\* request at a time.
AuthInit ==
    /\ config \in [SUPABASE_JWT_SECRET : {JwtSecret, <<>>},
                   TRUSTED_SERVICE_API_KEY : ConfiguredKeys]
    /\ user = Identities
    /\ kones_balance = <<>>
    /\ kones_ledger = <<>>
    /\ chronolog = <<>>
    /\ clock = 0
    /\ session = [w \in Workers |-> Idle]
    /\ last = NoAnswer
    /\ LegacyEmpty /\ NoAddons /\ OneTab

AuthNext ==
    \/ list_posts(SerialWorker, AllTokens)
    \/ clock < MaxSerialClock
       /\ earn_kones(SerialWorker, AllApiKeys, AllTokens, AuthEarnBodies)
    \/ earn_kones_commit(SerialWorker)
    \/ earn_kones_respond(SerialWorker)
    \/ clock < MaxSerialClock
       /\ webhook_sync(SerialWorker, AllApiKeys, AllTokens, AuthWebhookBodies)

AuthSpec == AuthInit /\ [][AuthNext]_vars

\* Concurrent credits while the ledger history is read.
LedgerNext ==
    \E w \in Workers :
        \/ clock < MaxClock
           /\ earn_kones(w, LedgerApiKeys, ConcurrentTokens, LedgerEarnBodies)
        \/ earn_kones_commit(w)
        \/ earn_kones_respond(w)
        \/ get_kones_ledger(w, Identities)

LedgerSpec == Init /\ [][LedgerNext]_vars

\* kaisurf_secured_app.py configured, with no request served.
ApiIdle ==
    /\ config = [SUPABASE_JWT_SECRET |-> JwtSecret, TRUSTED_SERVICE_API_KEY |-> TrustedKey]
    /\ user = Identities
    /\ kones_balance = <<>>
    /\ kones_ledger = <<>>
    /\ chronolog = <<>>
    /\ clock = 0
    /\ session = [w \in Workers |-> Idle]
    /\ last = NoAnswer

\* The session-header application: one request at a time, except that a
\* registration can be between its two commits while other requests are
\* served.  The database is empty, or it is one in which a login_record row
\* outlived its user row.
LegacyInit ==
    /\ User = <<>>
    /\ LoginRecord \in
         {<<>>,
          <<[user_id |-> UnknownUserId,
             login_username |-> get_daily_username(<<"a", " ", "b">>, 1).s,
             login_timestamp |-> [date |-> 1, time |-> 0]]>>}
    /\ KonesBalance = {}
    /\ ChronoLog = <<>>
    /\ today = 1
    /\ utcnow = 1
    /\ registration = [pc |-> "idle"]
    /\ reply = NoReply
    /\ ApiIdle
    /\ NoAddons /\ OneTab

LegacyNext ==
    \/ register(RegisterBodies)
    \/ register_commit
    \/ login(LoginBodies)
    \/ get_kones_balance(AuthUsernames)
    \/ get_kones_ledger_authenticated(AuthUsernames)
    \/ midnight

LegacySpec == LegacyInit /\ [][LegacyNext]_vars

\* The window loads the add-ons of a folder, then serves the clicks on their
\* buttons.
AddonInit ==
    /\ addon_dir \in {Directory(FALSE, <<>>)} \cup
         UNION {{Directory(TRUE, [j \in 1..n |-> AddonDirectory(AddonNames[j], kinds[j])]) :
                    kinds \in [1..n -> AddonKinds]} : n \in 0..MaxAddons}
    /\ WindowConstructed
    /\ ApiIdle
    /\ LegacyEmpty /\ OneTab

AddonNext ==
    \/ load_addons
    \/ load_addons_entry
    \/ \E name \in {AddonNames[j] : j \in 1..MaxAddons}, checked \in BOOLEAN :
         toggle_panel(name, checked)

AddonSpec == AddonInit /\ [][AddonNext]_vars

\* The window with its first tab, and the clicks and signals of its tabs.
TabInit ==
    /\ OneTab
    /\ ApiIdle
    /\ LegacyEmpty /\ NoAddons

TabNext ==
    \/ add_new_tab(NewTab)
    \/ \E i \in 0..(MaxTabs - 1) : close_tab(i)
    \/ \E browser \in 1..MaxViews, title \in PageTitles : loadFinished(browser, title)

TabSpec == TabInit /\ [][TabNext]_vars

(***************************************************************************)
(* Definitions the properties are stated with                              *)
(***************************************************************************)
RECURSIVE SumAmounts(_)
SumAmounts(ids) ==
    IF ids = {} THEN 0
    ELSE LET i == CHOOSE j \in ids : TRUE
         IN  kones_ledger[i].amount + SumAmounts(ids \ {i})

\* The sum of the amounts of the ledger rows of an identity.
LedgerSum(uid) == SumAmounts(LedgerRows(uid))

\* The bearer token passes every check of the token gate.
TokenAuthenticates(token) ==
    /\ token.hdr = "bearer"
    /\ token.jwt.form = "jwt"
    /\ config.SUPABASE_JWT_SECRET # <<>>
    /\ token.jwt.key = config.SUPABASE_JWT_SECRET
    /\ token.jwt.exp # "past"
    /\ token.jwt.sub \in user

\* The request fails the shared-secret gate or the bearer-token gate.
FailsAGate(r) ==
    \/ r.api_key # Hdr(config.TRUSTED_SERVICE_API_KEY)
    \/ ~TokenAuthenticates(r.token)

\* The credit requests a step serves: those of the sessions it changes, and
\* the one it answers.
CreditsServed ==
    {session[w] : w \in {v \in Workers : session[v].pc # "idle" /\ session'[v] # session[v]}}
    \cup {session'[w] : w \in {v \in Workers : session'[v].pc # "idle" /\ session'[v] # session[v]}}
    \cup (IF last' # NoAnswer /\ last'.route = "earn" THEN {last'} ELSE {})

\* The step answers the credit request r.
AnswersWith(r, status, message) ==
    /\ last' # NoAnswer
    /\ last'.route = "earn"
    /\ last'.api_key = r.api_key /\ last'.token = r.token /\ last'.body = r.body
    /\ last'.status = status
    /\ last'.message = message

HasFields(body) == body.t = "object" /\ DOMAIN body.fields = EarnFieldNames

\* The amount of the body is a JSON number that is zero or negative.
AmountNotPositive(body) ==
    /\ HasFields(body)
    /\ \/ body.fields.amount.t = "int" /\ body.fields.amount.n <= 0
       \/ body.fields.amount.t = "float" /\ body.fields.amount.halves <= 0

\* The amount of the body is not an integer: a string that is no numeral, a
\* number with a fraction, null, a boolean, a list or an object.
AmountNotInteger(body) ==
    /\ HasFields(body)
    /\ LET a == body.fields.amount
       IN  \/ a.t \in {"null", "bool", "list", "object"}
           \/ a.t = "float" /\ a.halves % 2 # 0
           \/ a.t = "str" /\ \E i \in 1..Len(a.s) : a.s[i] \notin Digits \cup {"-", "+", " "}

(***************************************************************************)
(* C1.  For every identity, the balance held equals the sum of the amounts *)
(* of its ledger rows, an identity without a balance row counting as 0.    *)
(* Stated for every balance row the identity has.                          *)
(***************************************************************************)
C1_BalanceEqualsLedgerSum ==
    \A uid \in Identities :
        IF BalanceRows(uid) = {} THEN LedgerSum(uid) = 0
        ELSE \A i \in BalanceRows(uid) : kones_balance[i].balance = LedgerSum(uid)

(***************************************************************************)
(* C2.  A successful credit of amount a > 0 answers new_balance =          *)
(* old_balance + a, old_balance being what the identity held when the      *)
(* request arrived (0 without a row); the identity then holds exactly that *)
(* in its one balance row; exactly one ledger row was added for it, with   *)
(* amount a and the description of the request, and it heads the history.  *)
(***************************************************************************)
C2_CreditResult ==
    (last # NoAnswer /\ last.route = "earn" /\ last.status = 200) =>
        LET r == last.result
            uid == r.current_user
            added == LedgerRows(uid) \ r.old_entries
            given == last.body.fields.amount
        IN  /\ r.amount > 0
            /\ given.t = "int" => r.amount = given.n
            /\ r.new_balance = r.old_balance + r.amount
            /\ Cardinality(BalanceRows(uid)) = 1
            /\ BalanceHeld(uid) = r.new_balance
            /\ r.old_entries \subseteq LedgerRows(uid)
            /\ Cardinality(added) = 1
            /\ \A e \in added :
                 /\ kones_ledger[e].amount = r.amount
                 /\ kones_ledger[e].description = last.body.fields.description.s
                 /\ Head(History(uid)) = e

\* A credit to an identity that already held a balance has been answered.
C2_Witness ==
    /\ last # NoAnswer /\ last.route = "earn" /\ last.status = 200
    /\ last.result.old_balance > 0
    /\ last.result.old_entries # {}

(***************************************************************************)
(* C3.  Two concurrent credits a1 and a2 to an identity without a balance  *)
(* row end in exactly one balance row holding a1 + a2 and two ledger rows. *)
(* Stated where the second of them has committed: its handler created the  *)
(* balance record (it found none) and the identity has two ledger rows.    *)
(***************************************************************************)
C3_ConcurrentFirstCredits ==
    \A w \in Workers :
        (/\ session[w].pc = "committed"
         /\ session[w].created
         /\ Cardinality(LedgerRows(session[w].current_user)) = 2) =>
            LET uid == session[w].current_user
            IN  /\ Cardinality(BalanceRows(uid)) = 1
                /\ \A i \in BalanceRows(uid) : kones_balance[i].balance = LedgerSum(uid)

(***************************************************************************)
(* C4.  There is at most one balance row per identity.                     *)
(***************************************************************************)
C4_OneBalanceRowPerIdentity ==
    \A uid \in Identities : Cardinality(BalanceRows(uid)) <= 1

(***************************************************************************)
(* C5.  The balance change and the ledger row of a credit are committed    *)
(* as one unit: every step changes both tables or neither, a change adds   *)
(* one ledger row, and a commit that fails changes neither.                *)
(***************************************************************************)
C5_AtomicCommit ==
    [][/\ (kones_balance' # kones_balance) <=> (kones_ledger' # kones_ledger)
       /\ kones_ledger' # kones_ledger => Len(kones_ledger') = Len(kones_ledger) + 1
       /\ \A w \in Workers :
            (session[w].pc = "pending" /\ session'[w].pc = "idle") =>
                /\ kones_balance' = kones_balance
                /\ kones_ledger' = kones_ledger
                /\ last'.status = 500]_vars

\* A commit has failed in a store that already holds a committed credit.
C5_Witness ==
    /\ last # NoAnswer /\ last.route = "earn" /\ last.status = 500
    /\ last.result = [commit_failed |-> TRUE]
    /\ kones_ledger # <<>>
    /\ kones_balance # <<>>

(***************************************************************************)
(* C6.  A POST /earn/kones request that fails the shared-secret gate or    *)
(* the bearer-token gate leaves every balance, ledger and audit row        *)
(* unchanged: no step that serves such a request changes a table.          *)
(***************************************************************************)
C6_NoMutationWithoutAuth ==
    [][(\E r \in CreditsServed : FailsAGate(r)) =>
            UNCHANGED <<user, kones_balance, kones_ledger, chronolog>>]_vars

\* A request that passed the shared-secret gate and failed the token gate
\* has been answered over a store that holds a balance and a ledger row.
C6_Witness ==
    /\ last # NoAnswer /\ last.route = "earn"
    /\ last.api_key = Hdr(config.TRUSTED_SERVICE_API_KEY)
    /\ ~TokenAuthenticates(last.token)
    /\ last.status = 401
    /\ kones_balance # <<>>
    /\ kones_ledger # <<>>

(***************************************************************************)
(* C7.  An authenticated credit request whose body lacks amount or         *)
(* description, or whose amount is zero or negative, is answered 400 and   *)
(* leaves the balance and ledger rows unchanged.                           *)
(***************************************************************************)
C7_InvalidBodyRejected ==
    [][\A r \in CreditsServed :
            (~FailsAGate(r) /\ (~HasFields(r.body) \/ AmountNotPositive(r.body))) =>
                /\ last' # NoAnswer /\ last'.body = r.body /\ last'.status = 400
                /\ UNCHANGED <<kones_balance, kones_ledger>>]_vars

(***************************************************************************)
(* C8.  An authenticated credit request whose amount is not an integer is  *)
(* answered 400 'Amount must be an integer.' and changes no balance or     *)
(* ledger row.                                                             *)
(***************************************************************************)
C8_NonIntegerAmountRejected ==
    [][\A r \in CreditsServed :
            (~FailsAGate(r) /\ AmountNotInteger(r.body)) =>
                /\ AnswersWith(r, 400, "Amount must be an integer.")
                /\ UNCHANGED <<kones_balance, kones_ledger>>]_vars

(***************************************************************************)
(* C9.  A credit request with an empty description is rejected: no session *)
(* goes on with one, and every ledger row has a non-empty description.     *)
(***************************************************************************)
C9_DescriptionNonEmpty ==
    /\ \A w \in Workers : session[w].pc # "idle" => session[w].description # JStr(<<>>)
    /\ \A i \in 1..Len(kones_ledger) : kones_ledger[i].description # <<>>

(***************************************************************************)
(* C10.  The commit of a credit for an identity changes or creates exactly *)
(* one balance row, that identity's, and appends exactly one ledger row,   *)
(* owned by it; every other balance and ledger row, the user rows and the  *)
(* audit rows stay as they are.  The other steps of a credit write nothing.*)
(***************************************************************************)
BalanceRowsChanged ==
    {i \in 1..Len(kones_balance') :
        i > Len(kones_balance) \/ kones_balance'[i] # kones_balance[i]}

C10_CreditFrame ==
    [][\A w \in Workers :
          session'[w] # session[w] =>
            IF session[w].pc = "pending" /\ session'[w].pc = "committed"
            THEN LET uid == session[w].current_user
                 IN  /\ Len(kones_balance') >= Len(kones_balance)
                     /\ Cardinality(BalanceRowsChanged) = 1
                     /\ \A i \in BalanceRowsChanged :
                          /\ kones_balance'[i].user_auth_uid = uid
                          /\ i <= Len(kones_balance) => kones_balance[i].user_auth_uid = uid
                     /\ Len(kones_ledger') = Len(kones_ledger) + 1
                     /\ SubSeq(kones_ledger', 1, Len(kones_ledger)) = kones_ledger
                     /\ kones_ledger'[Len(kones_ledger')].user_auth_uid = uid
                     /\ UNCHANGED <<user, chronolog>>
            ELSE UNCHANGED <<user, kones_balance, kones_ledger, chronolog>>]_vars

\* A credit for u1 has committed while u2 holds a balance and the audit
\* trail has a row.
C10_Witness ==
    \E w \in Workers :
        /\ session[w].pc = "committed"
        /\ session[w].current_user = "u1"
        /\ BalanceRows("u2") # {}
        /\ LedgerRows("u2") # {}
        /\ chronolog # <<>>

\* The request carries no X-Api-Key equal to the configured key.
KeyDiffers(r) == r.api_key # Hdr(config.TRUSTED_SERVICE_API_KEY)

\* The bearer token is missing or invalid: no Bearer header, or a token that
\* is malformed, wrongly signed, expired or without a sub claim.
TokenMissingOrInvalid(token) ==
    \/ token.hdr # "bearer"
    \/ token.jwt.form # "jwt"
    \/ token.jwt.key # config.SUPABASE_JWT_SECRET
    \/ token.jwt.exp = "past"
    \/ token.jwt.sub = "none"

\* The latest step answered a request to one of the two trusted routes.
TrustedRouteAnswered == last # NoAnswer /\ last.route \in {"earn", "webhook"}

C12_OneKeyFailureOutcome ==
    /\ \A w \in Workers : session[w].pc # "idle" => ~KeyDiffers(session[w])
    /\ TrustedRouteAnswered =>
         IF KeyDiffers(last)
         THEN /\ last.status = 403
              /\ last.message = "Invalid API Key for trusted service."
              /\ last.body = NoBody
              /\ last.result = NoResult
         ELSE ~(last.status = 403)

\* A request with a valid token whose key is one character off the
\* configured key has been answered 403.
C12_Witness ==
    /\ TrustedRouteAnswered
    /\ last.api_key.present
    /\ Len(last.api_key.v) = Len(config.TRUSTED_SERVICE_API_KEY)
    /\ Cardinality({i \in 1..Len(last.api_key.v) :
                        last.api_key.v[i] # config.TRUSTED_SERVICE_API_KEY[i]}) = 1
    /\ TokenAuthenticates(last.token)
    /\ last.status = 403

\* The latest step answered a request whose Bearer token reached
\* jwt.decode: the key gate, where the route has one, was passed, the header
\* is a Bearer header and the signing secret is configured.
TokenDecoded ==
    /\ last # NoAnswer
    /\ last.route \in {"posts", "earn", "webhook"}
    /\ last.route # "posts" => ~KeyDiffers(last)
    /\ last.token.hdr = "bearer"
    /\ config.SUPABASE_JWT_SECRET # <<>>

\* The token is a JWT whose exp claim is in the past.
Expired(token) == token.jwt.form = "jwt" /\ token.jwt.exp = "past"

\* The token is a JWT signed with the configured secret.
WellSigned(token) ==
    token.jwt.form = "jwt" /\ token.jwt.key = config.SUPABASE_JWT_SECRET

(***************************************************************************)
(* C13, as the spec states it.  A bearer token whose exp claim is in the   *)
(* past is answered 401 'JWT has expired.', whether or not its signature   *)
(* is valid.                                                               *)
(***************************************************************************)
C13_ExpiredAlwaysReported ==
    (TokenDecoded /\ Expired(last.token)) =>
        /\ last.status = 401
        /\ last.message = "JWT has expired."

(***************************************************************************)
(* C13, amended.  A bearer token whose exp claim is in the past is always  *)
(* rejected with a 401.  The outcome is the expiry one, 'JWT has           *)
(* expired.', when its signature is valid; an expired token whose          *)
(* signature is not valid gets the signature outcome, 'Invalid format.'.   *)
(***************************************************************************)
C13_ExpiredReportedWhenSigned ==
    (TokenDecoded /\ Expired(last.token)) =>
        /\ last.status = 401
        /\ last.body = NoBody
        /\ last.message = IF WellSigned(last.token)
                          THEN "JWT has expired." ELSE "Invalid format."

\* An expired token with a valid signature has been answered on a trusted
\* route.
C13_Witness ==
    /\ TokenDecoded
    /\ last.route = "earn"
    /\ Expired(last.token)
    /\ WellSigned(last.token)
    /\ last.message = "JWT has expired."

\* The first of the four checks a token fails: structure and signature,
\* expiry, presence of the sub claim, the sub naming a stored identity.
FirstFailingCheck(token) ==
    CASE ~WellSigned(token) -> "signature"
      [] Expired(token) -> "expiry"
      [] token.jwt.sub = "none" -> "subject"
      [] token.jwt.sub \notin user -> "identity"
      [] OTHER -> "none"

\* The check an answer reports as failed.
ReportedCheck(status, message) ==
    CASE status = 401 /\ message = "Invalid format." -> "signature"
      [] status = 401 /\ message = "JWT has expired." -> "expiry"
      [] status = 401 /\ message = "Invalid JWT payload." -> "subject"
      [] status = 404 /\ message = "User not found in database." -> "identity"
      [] OTHER -> "none"

(***************************************************************************)
(* C14.  The token gate applies its checks in the order (1) structure and  *)
(* signature, (2) expiry, (3) presence of the sub claim, (4) the sub       *)
(* resolving to a stored identity, and reports the first that fails: the   *)
(* answer to a decoded token names the first check the token fails, never  *)
(* a later one, and names none when the token passes all four.             *)
(***************************************************************************)
C14_FirstFailingCheckReported ==
    TokenDecoded =>
        /\ ReportedCheck(last.status, last.message) = FirstFailingCheck(last.token)
        /\ FirstFailingCheck(last.token) # "none" => last.body = NoBody

\* A well-signed token that is expired and has no sub claim has been
\* answered with the expiry outcome.
C14_Witness ==
    /\ TokenDecoded
    /\ WellSigned(last.token)
    /\ Expired(last.token)
    /\ last.token.jwt.sub = "none"
    /\ last.message = "JWT has expired."

\* The failure mode of a token under the configuration: a missing or
\* malformed credential, a signing secret absent from the configuration, or
\* the first check the token fails.
FailureMode(token) ==
    IF token.hdr # "bearer" THEN "credential"
    ELSE IF config.SUPABASE_JWT_SECRET = <<>> THEN "secret"
    ELSE FirstFailingCheck(token)

\* The latest step answered a request that reached the token gate.
TokenGateAnswered ==
    /\ last # NoAnswer
    /\ last.route \in {"posts", "earn", "webhook"}
    /\ last.route # "posts" => ~KeyDiffers(last)

Misconfiguration == <<500, "Server misconfiguration.">>

C16_AuthenticationIsPure ==
    [][/\ (last' # NoAnswer /\ last'.route \in {"posts", "earn", "webhook"}
              /\ last'.status = 200) =>
            /\ TokenAuthenticates(last'.token)
            /\ last'.result.current_user = last'.token.jwt.sub
            /\ last'.result.current_user \in user
       /\ (last' # NoAnswer /\ last'.route = "posts") =>
            UNCHANGED <<user, kones_balance, kones_ledger, chronolog>>
       /\ \A w \in Workers :
            (session[w].pc = "idle" /\ session'[w].pc = "pending") =>
                /\ TokenAuthenticates(session'[w].token)
                /\ session'[w].current_user = session'[w].token.jwt.sub
                /\ UNCHANGED <<user, kones_balance, kones_ledger, chronolog>>]_vars

\* GET /posts has been answered for u2 over a store that holds a balance, a
\* ledger row and an audit row.
C16_Witness ==
    /\ last # NoAnswer
    /\ last.route = "posts"
    /\ last.status = 200
    /\ last.result.current_user = "u2"
    /\ kones_balance # <<>>
    /\ kones_ledger # <<>>
    /\ chronolog # <<>>

\* The latest step accepted a webhook event.
WebhookAccepted == last # NoAnswer /\ last.route = "webhook" /\ last.status = 200

(***************************************************************************)
(* C17.  For every accepted webhook event, the event_type stored in the    *)
(* audit row and echoed in the response is 'WEBHOOK_' followed by the      *)
(* caller's event_type in upper case with every space replaced by an       *)
(* underscore; so 'a ' and 'A_' are both stored as 'WEBHOOK_A_'.           *)
(***************************************************************************)
C17_EventTypeNormalised ==
    WebhookAccepted =>
        LET given == last.body.fields.event_type.s
            stored == chronolog[Len(chronolog)].event_type
        IN  /\ stored = last.result.event_type
            /\ Len(stored) = Len(WebhookPrefix) + Len(given)
            /\ SubSeq(stored, 1, Len(WebhookPrefix)) = <<"W", "E", "B", "H", "O", "O", "K", "_">>
            /\ \A i \in 1..Len(given) :
                 stored[Len(WebhookPrefix) + i] =
                    IF given[i] = " " THEN "_" ELSE UpperChar(given[i])
            /\ given \in {<<"a", " ">>, <<"A", "_">>} =>
                 stored = <<"W", "E", "B", "H", "O", "O", "K", "_", "A", "_">>

\* The event type 'a ' has been accepted and stored.
C17_Witness ==
    /\ WebhookAccepted
    /\ last.body.fields.event_type.s = <<"a", " ">>
    /\ chronolog[Len(chronolog)].event_type = <<"W", "E", "B", "H", "O", "O", "K", "_", "A", "_">>

\* The body of a webhook request lacks event_type or payload: it is no JSON
\* object, or an object without one of the keys.
WebhookFieldMissing(body) ==
    \/ body.t # "object"
    \/ ~(WebhookFieldNames \subseteq DOMAIN body.fields)

(***************************************************************************)
(* C18.  An authenticated POST /webhook/sync request in which event_type   *)
(* or payload is missing, a body that is no JSON object included, is       *)
(* answered with the 400 validation error and appends no audit row.        *)
(***************************************************************************)
C18_WebhookMissingFieldRejected ==
    [][(/\ last' # NoAnswer
        /\ last'.route = "webhook"
        /\ last'.body # NoBody
        /\ WebhookFieldMissing(last'.body)) =>
            /\ last'.status = 400
            /\ last'.message = "Request must include 'event_type' and 'payload'."
            /\ chronolog' = chronolog]_vars

(***************************************************************************)
(* C19.  A successful webhook event for an identity appends exactly one    *)
(* audit row, owned by that identity and carrying the given payload, and   *)
(* no webhook request, accepted or not, changes a user, balance or ledger  *)
(* row; one that is not accepted appends nothing.                          *)
(***************************************************************************)
C19_WebhookFrame ==
    [][(last' # NoAnswer /\ last'.route = "webhook") =>
            /\ UNCHANGED <<user, kones_balance, kones_ledger>>
            /\ IF last'.status = 200
               THEN /\ Len(chronolog') = Len(chronolog) + 1
                    /\ SubSeq(chronolog', 1, Len(chronolog)) = chronolog
                    /\ chronolog'[Len(chronolog')].user_auth_uid = last'.token.jwt.sub
                    /\ chronolog'[Len(chronolog')].payload = last'.body.fields.payload
               ELSE chronolog' = chronolog]_vars

\* A webhook event has been accepted while a credit of another worker is
\* pending and the store holds a balance.
C19_Witness ==
    /\ WebhookAccepted
    /\ kones_balance # <<>>
    /\ kones_ledger # <<>>
    /\ \E w \in Workers : session[w].pc = "pending"

\* The latest step answered a ledger history read.
HistoryRead == last # NoAnswer /\ last.route = "ledger"

\* The history returned holds all and only the ledger rows of the identity,
\* each once, as they are stored.
FullSnapshot ==
    /\ {last.ids[i] : i \in 1..Len(last.ids)} = LedgerRows(last.current_user)
    /\ Len(last.ids) = Cardinality(LedgerRows(last.current_user))
    /\ Len(last.history) = Len(last.ids)
    /\ \A i \in 1..Len(last.ids) :
         /\ last.history[i].amount = kones_ledger[last.ids[i]].amount
         /\ last.history[i].description = kones_ledger[last.ids[i]].description
         /\ last.history[i].timestamp = kones_ledger[last.ids[i]].timestamp

C21_LedgerAppendOnly ==
    [][/\ Len(kones_ledger') >= Len(kones_ledger)
       /\ \A i \in 1..Len(kones_ledger) : kones_ledger'[i] = kones_ledger[i]]_vars

\* Two credits of different amounts are committed, one after the other, and
\* a third request is in flight.
C21_Witness ==
    /\ Len(kones_ledger) >= 2
    /\ kones_ledger[1].amount # kones_ledger[2].amount
    /\ \E w \in Workers : session[w].pc = "pending"

\* C26: two concurrent credits a1 and a2 to an identity that already has a
\* balance row holding b end with the balance b + a1 + a2 and two more ledger
\* rows.  Stated where both handlers loaded the same row while it held b
\* and both have committed.
C26_ConcurrentCreditsToExistingRow ==
    \A w1, w2 \in Workers :
        (/\ w1 # w2
         /\ session[w1].pc = "committed" /\ session[w2].pc = "committed"
         /\ ~session[w1].created /\ ~session[w2].created
         /\ session[w1].balance_id = session[w2].balance_id
         /\ session[w1].old_balance = session[w2].old_balance
         /\ session[w1].old_entries = session[w2].old_entries) =>
            LET uid == session[w1].current_user
                b == session[w1].old_balance
            IN  /\ kones_balance[session[w1].balance_id].balance =
                       b + session[w1].amount + session[w2].amount
                /\ Cardinality(LedgerRows(uid)) =
                       Cardinality(session[w1].old_entries) + 2

\* C22: a Balance row is created or changed only by the credit operation.
\* Every step that is not the commit of a credit, and so every read (the
\* balance fetch, the ledger history, GET /posts), leaves the balance rows
\* of both applications and their values as they were.
C22_BalanceWrittenByCreditOnly ==
    [][(kones_balance' # kones_balance \/ KonesBalance' # KonesBalance) =>
          \E w \in Workers :
              session[w].pc = "pending" /\ session'[w].pc = "committed"]_vars

\* The login_record rows of a username.
RecordsOf(username) ==
    {i \in DOMAIN LoginRecord : LoginRecord[i].login_username = username}

\* C25: the session-header gate of /kones/balance and /kones/ledger answers,
\* in this order of precedence, 401 when no X-Auth-Username is given (the
\* header is absent, or present and empty), 403 when no LoginRecord has that
\* username, 404 when the most recent LoginRecord of that username names a
\* user that does not exist; only otherwise does the handler run, and it
\* runs for the user of that most recent LoginRecord.
C25_SessionGateOrder ==
    reply.route \in {"balance", "ledger"} =>
        LET auth_username == reply.request
            most_recent ==
                {i \in RecordsOf(auth_username.v) :
                    \A j \in RecordsOf(auth_username.v) :
                        j # i => LoginRecord[j].login_timestamp.time <
                                     LoginRecord[i].login_timestamp.time}
        IN  IF ~auth_username.present \/ auth_username.v = <<>>
            THEN reply.status = 401
            ELSE IF RecordsOf(auth_username.v) = {}
            THEN reply.status = 403
            ELSE IF \A i \in most_recent :
                        LoginRecord[i].user_id \notin DOMAIN User
            THEN reply.status = 404
            ELSE /\ reply.status = 200 \/ (reply.status = 500 /\ reply.route = "balance")
                 /\ \A i \in most_recent :
                        reply.result.user_id = LoginRecord[i].user_id

\* A request is served for the user who logged in last under a username
\* that an older LoginRecord gives to somebody else.
C25_Witness ==
    /\ reply.route \in {"balance", "ledger"}
    /\ reply.status = 200
    /\ \E i \in RecordsOf(reply.request.v) :
           LoginRecord[i].user_id # reply.result.user_id

\* C27: a session username is admitted by require_auth only if a login with
\* that username succeeded before.  A step adds a LoginRecord row only when
\* it is a login answered 200 whose roaming_id is that of an existing user
\* and whose username is the daily username of that roaming_id; the row is
\* that user's and holds that username, and no step changes or removes a
\* row.  A login that fails (unknown roaming_id, wrong username, missing
\* fields) leaves the store unchanged.  A request is admitted for a user
\* only under a username some LoginRecord row gives to that user.
C27_AdmittedOnlyAfterLogin ==
    [][/\ LoginRecord' # LoginRecord =>
            /\ reply'.route = "login" /\ reply'.status = 200
            /\ LET data == reply'.request
               IN  /\ data.t = "object"
                   /\ {"roaming_id", "username"} \subseteq DOMAIN data.fields
                   /\ \E user_id \in DOMAIN User :
                        /\ JStr(User[user_id]) = data.fields.roaming_id
                        /\ data.fields.username =
                               get_daily_username(User[user_id], today)
                        /\ Len(LoginRecord') = Len(LoginRecord) + 1
                        /\ SubSeq(LoginRecord', 1, Len(LoginRecord)) = LoginRecord
                        /\ LoginRecord'[Len(LoginRecord')].user_id = user_id
                        /\ LoginRecord'[Len(LoginRecord')].login_username =
                               data.fields.username.s
       /\ (reply'.route = "login" /\ reply'.status # 200) =>
            UNCHANGED <<User, LoginRecord, KonesBalance, ChronoLog>>
       /\ (reply'.route \in {"balance", "ledger"} /\ reply'.status = 200) =>
            \E i \in DOMAIN LoginRecord :
                /\ LoginRecord[i].login_username = reply'.request.v
                /\ LoginRecord[i].user_id = reply'.result.user_id
                /\ LoginRecord[i].user_id \in DOMAIN User]_vars

\* A user is admitted on the second day under the username of a login of
\* the first day.
C27_Witness ==
    /\ reply.route = "balance"
    /\ reply.status = 200
    /\ today = 2
    /\ \E i \in DOMAIN LoginRecord :
           /\ LoginRecord[i].login_username = reply.request.v
           /\ LoginRecord[i].user_id = reply.result.user_id
           /\ LoginRecord[i].login_timestamp.date = 1

\* An entry of the addons folder that nothing is wrong with.
NonFailing(d) ==
    /\ d.has_manifest
    /\ d.manifest.parses
    /\ {"name", "entry_point"} \subseteq DOMAIN d.manifest.json
    /\ d.module.executes
    /\ ~d.module.initialize_raises
    /\ ~d.module.setup_ui_raises

\* The calls of fn made into the add-on, as places in the log.
CallsOf(fn, name) ==
    {k \in 1..Len(calls) : calls[k].fn = fn /\ calls[k].addon = name}

\* The entries load_addons has dealt with.
EntriesDone ==
    IF loading.pc = "returned" THEN 1..Len(addon_dir.listing)
    ELSE IF loading.pc = "listing" THEN 1..(loading.position - 1)
    ELSE {}

HasButton(name) == \E k \in 1..Len(addon_toolbar) : addon_toolbar[k] = name

\* C23: add-on loading isolates failures per add-on.  Whatever entries of
\* the folder fail (manifest unparsable, entry point unresolvable,
\* initialize or setup_ui raising) and in whatever order the folder lists
\* them, load_addons does not raise, it returns once every entry is dealt
\* with, and every add-on that does not fail has been initialized and has
\* its UI attached by then.
C23_FailuresIsolated ==
    /\ loading.pc # "raised"
    /\ \A j \in EntriesDone :
         LET d == addon_dir.listing[j]
         IN  NonFailing(d) =>
               /\ \E k \in CallsOf("initialize", d.name) : ~calls[k].raised
               /\ \E k \in CallsOf("setup_ui", d.name) : ~calls[k].raised
               /\ d.name \in DOMAIN instance
               /\ HasButton(d.name)
               /\ d.manifest.json.name \in DOMAIN addons

\* load_addons has returned from a folder that lists a sound add-on between
\* one whose initialize raises and one whose setup_ui raises, and the sound
\* one has its button.
C23_Witness ==
    /\ loading.pc = "returned"
    /\ \E i, j, k \in 1..Len(addon_dir.listing) :
         /\ i < j /\ j < k
         /\ addon_dir.listing[i].module.initialize_raises
         /\ NonFailing(addon_dir.listing[j])
         /\ HasButton(addon_dir.listing[j].name)
         /\ addon_dir.listing[k].module.setup_ui_raises

\* C24: for every add-on the host loads, initialize is called exactly once,
\* with the host bridge, and then setup_ui exactly once, with the host
\* window, on the instance it returned.  setup_ui is never called before
\* initialize has returned, and never a second time.
C24_InitializeThenSetupUiOnce ==
    \A j \in 1..Len(addon_dir.listing) :
        LET name == addon_dir.listing[j].name
            initialized == CallsOf("initialize", name)
            attached == CallsOf("setup_ui", name)
        IN  /\ Cardinality(initialized) <= 1
            /\ Cardinality(attached) <= 1
            /\ \A k \in initialized : calls[k].arg = "bridge"
            /\ \A k \in attached :
                 /\ calls[k].arg = "main_window"
                 /\ \E i \in initialized : i < k /\ ~calls[i].raised
            /\ (j \in EntriesDone /\ name \in DOMAIN instance) =>
                 Cardinality(initialized) = 1 /\ Cardinality(attached) = 1

\* Two add-ons are loaded, one of them with a setup_ui that raised, and the
\* panel of the other has been opened.
C24_Witness ==
    /\ loading.pc = "returned"
    /\ Cardinality(DOMAIN instance) >= 2
    /\ \E k \in 1..Len(calls) : calls[k].fn = "setup_ui" /\ calls[k].raised
    /\ \E k \in 1..Len(calls) : calls[k].fn = "setup_ui" /\ ~calls[k].raised
    /\ addon_panel.visible

\* The panels built for an add-on: each is four widgets in the layout.
PanelsBuiltIn(layout, name) ==
    Cardinality({k \in 1..Len(layout) :
                    layout[k].addon = name /\ layout[k].widget = "title"})

\* C28: the panel UI of the add-on is created lazily and at most once.  In
\* every sequence of toggle_panel(checked) events after setup_ui,
\* initialize_panel_ui runs on the first event with checked = true, before
\* the panel is shown, and in no other event; and after an event the panel
\* is visible exactly when the event had checked = true.
C28_PanelBuiltOnceLazily ==
    [][effects' # effects =>
          LET name == effects'.addon
              first_open == effects'.checked /\ ~instance[name].ui_initialized
          IN  /\ (\E k \in 1..Len(effects'.did) :
                      effects'.did[k] = "initialize_panel_ui") <=> first_open
              /\ first_open =>
                   /\ effects'.did[1] = "initialize_panel_ui"
                   /\ effects'.did[2] = "show"
                   /\ PanelsBuiltIn(addon_panel_layout, name) = 0
              /\ PanelsBuiltIn(addon_panel_layout', name) =
                     IF instance'[name].ui_initialized THEN 1 ELSE 0
              /\ instance'[name].ui_initialized <=>
                   (instance[name].ui_initialized \/ effects'.checked)
              /\ addon_panel'.visible <=> effects'.checked
              /\ HasButton(name)]_vars

\* The panel of an add-on was opened, closed and is open again, with its
\* four widgets, beside the panel of a second add-on.
C28_Witness ==
    /\ effects.addon # "none"
    /\ effects.checked
    /\ effects.did = <<"show", "setSizes">>
    /\ PanelsBuiltIn(addon_panel_layout, effects.addon) = 1
    /\ Len(addon_panel_layout) = 2 * Len(PanelWidgets)
    /\ addon_panel.visible

\* C29: close_tab(i) closes the whole application and removes no tab when
\* fewer than two tabs are open, and otherwise removes exactly tab i and
\* leaves the window open; so, after any sequence of add_new_tab and
\* close_tab events, the window has at least one tab for as long as it is
\* open.
C29_LastTabClosesWindow ==
    [][/\ (event'.signal = "tabCloseRequested" /\ (tabs' # tabs \/ is_open' # is_open)) =>
            IF Len(tabs.widgets) < 2
            THEN ~is_open' /\ tabs' = tabs
            ELSE /\ is_open'
                 /\ tabs'.widgets =
                        [k \in 1..(Len(tabs.widgets) - 1) |->
                            IF k < event'.i + 1 THEN tabs.widgets[k]
                            ELSE tabs.widgets[k + 1]]
       /\ is_open' => Len(tabs'.widgets) >= 1
       /\ tabs'.currentIndex \in 0..(Len(tabs'.widgets) - 1)]_vars

\* The window was closed from its last tab, after a tab had been added and
\* the first tab removed.
C29_Witness ==
    /\ ~is_open
    /\ Len(tabs.widgets) = 1
    /\ tabs.widgets[1].view = 2
    /\ event.signal = "tabCloseRequested"

\* C30: after any sequence of add_new_tab and close_tab events, a
\* loadFinished signal of a web view sets the title of the tab that holds
\* that view now, and the title of no other tab.
C30_TitleOfOwnTab ==
    [][event'.signal = "loadFinished" =>
          LET browser == event'.browser
          IN  /\ \A k \in 1..Len(tabs.widgets) :
                    tabs.widgets[k].view = browser =>
                        tabs'.widgets[k].text = Truncated(event'.title)
              /\ \A k \in 1..Len(tabs.widgets) :
                    tabs.widgets[k].view # browser =>
                        tabs'.widgets[k].text = tabs.widgets[k].text
              /\ Len(tabs'.widgets) = Len(tabs.widgets)
              /\ \A k \in 1..Len(tabs.widgets) :
                    tabs'.widgets[k].view = tabs.widgets[k].view]_vars

====
